---- MODULE Spec2Model ----
(***************************************************************************)
(* Snapshot time-point selection of disco                                  *)
(* (src/disco/analysis/feeder_analysis/timepoint_selection.py).            *)
(*                                                                         *)
(* One behaviour is one call of get_snapshot_timepoint(mode, file) against *)
(* a circuit held by the OpenDSS engine.  The circuit (PV systems, loads,  *)
(* load shapes), the start time of the settings and the requested mode are *)
(* drawn in Init; the actions are the consecutive blocks of the function.  *)
(*                                                                         *)
(* Time is counted in minutes from midnight of the day the load shapes     *)
(* start on.  A cell of a pandas column is a record [k, n, d]: k = "fin"   *)
(* is the number n/d (d > 0), k = "nan" is NaN, k = "inf" is +inf.         *)
(* The ratings and multipliers drawn are not negative, so -inf never       *)
(* arises.  pandas is modelled as its 1.x/2.x releases behave.             *)
(***************************************************************************)
EXTENDS Integers, Sequences, FiniteSets

\* ------------------------------------------------------------------ bounds
MaxNpts == 3
MaxMult == 1
MaxDevices == 2
MaxCalls == 3
MaxReports == 2
MaxParams == 2
MaxOps == 3
MaxAccesses == 2

ShapeNames == {"S1", "S2"}
StartTimes == {0, 7 * 60, 17 * 60}
Intervals == {60, 12 * 60}

\* --------------------------------------------------------- the enumeration
SnapshotTimePointSelectionMode ==
    {"max_pv_load_ratio", "max_load", "daytime_min_load", "pv_minus_load", "none"}

MAX_LOAD == "max_load"

pv_generation_hours == [start_time |-> 8 * 60, end_time |-> 17 * 60]

VARIABLES
    settings,            \* INPUT_SETTINGS: [loadshape_start_time]
    loadshapes,          \* engine: shape name -> [pmult, sinterval]
    pv_systems,          \* engine: sequence of [Pmpp, yearly]
    loads,               \* engine: sequence of [kW, yearly]
    requested,           \* the mode argument of the call
    pc,                  \* position of the call
    mode,                \* the local variable mode
    overridden,          \* "Changed mode to max_load" was logged
    column,              \* the local variable column ("" while unbound)
    aggregate_profiles,  \* the data frame [index, cols]
    timepoints,          \* the frame of candidates, rows in insertion order
    report,              \* contents of the output file
    report_written,      \* dump_data wrote the output file
    result,              \* the timestamp returned
    error,               \* the exception the call ended with ("" if none)
    pv_shapes,           \* the dict pv_shapes: [bound, dict]
    load_shapes,         \* the dict load_shapes: [bound, dict]
    materialized,        \* calls of create_loadshape_pmult_dataframe so far
    build,               \* how the interpreter and pandas at hand behave
    prev,                \* outcome of the call before this one, if any
    template_data,       \* contents of the pipeline template file
    stage_num,           \* PipelineCreatorBase.stage_num
    stages,              \* the stages the make_*_stage calls returned
    text_files,          \* the text files on disk: name -> lines
    pipeline_config,     \* the stages of the pipeline config file, if written
    pipeline_error,      \* the exception the last creator call ended with
    calls,               \* the make_*_stage calls made so far: [kind, raised]
    error_codes,         \* the error codes worked out so far
    active_shape,        \* engine: the load shape that is selected
    params,              \* a dict of command parameters: sequence of [name, value]
    options,             \* the option string made of params: [made, string]
    template_file,       \* the template file read by PipelineTemplate
    environ,             \* os.environ: JADE_PIPELINE_OUTPUT_DIR, "" when not set
    instance,            \* the data of the PipelineTemplate object in use
    seen,                \* the data as the last access to template gave it
    returned             \* what the calls on the object returned: [call, value]

vars == <<settings, loadshapes, pv_systems, loads, requested, pc, mode,
          overridden, column, aggregate_profiles, timepoints, report,
          report_written, result, error, pv_shapes, load_shapes, materialized,
          build, prev, template_data, stage_num, stages, text_files,
          pipeline_config, pipeline_error, calls, error_codes, active_shape,
          params, options, template_file, environ, instance, seen, returned>>

env == <<settings, loadshapes, pv_systems, loads, requested>>

\* the state of the pipeline creator
pipe == <<template_data, stage_num, stages, text_files, pipeline_config,
          pipeline_error, calls>>

\* the state of the error reporting
errs == <<error_codes>>

\* the state of the making of option strings
opts == <<params, options>>

\* the state of a PipelineTemplate object and its file
tmpl == <<template_file, environ, instance, seen, returned>>

\* the state of what a specification does not touch besides sel and pipe
aux == <<errs, opts, tmpl>>

\* the state of the selection call
sel == <<settings, loadshapes, pv_systems, loads, requested, pc, mode,
         overridden, column, aggregate_profiles, timepoints, report,
         report_written, result, error, pv_shapes, load_shapes, materialized,
         build, prev, active_shape>>

\* ------------------------------------------------------- cells of a column
NaN == [k |-> "nan", n |-> 0, d |-> 1]
Inf == [k |-> "inf", n |-> 1, d |-> 1]
Fin(x) == [k |-> "fin", n |-> x, d |-> 1]
NaT == -1

IsNaN(a) == a.k = "nan"

CellAdd(a, b) == IF IsNaN(a) \/ IsNaN(b) THEN NaN ELSE Fin(a.n + b.n)

CellSub(a, b) == IF IsNaN(a) \/ IsNaN(b) THEN NaN ELSE Fin(a.n - b.n)

\* float division: x/0 is inf for x > 0 and NaN for x = 0, never an exception
CellDiv(a, b) ==
    IF IsNaN(a) \/ IsNaN(b) THEN NaN
    ELSE IF b.n = 0 THEN (IF a.n = 0 THEN NaN ELSE Inf)
    ELSE [k |-> "fin", n |-> a.n, d |-> b.n]

\* a < b for cells that are not NaN
CellLt(a, b) ==
    IF a.k = "inf" THEN FALSE
    ELSE IF b.k = "inf" THEN TRUE
    ELSE a.n * b.d < b.n * a.d

\* ------------------------------------------------------------- data frames
EmptyFrame == [index |-> << >>, cols |-> [c \in {"Load", "PV"} |-> << >>]]

\* position of timestamp t in an index, 0 when it is not a label of it
PosOf(index, t) ==
    IF \E i \in 1..Len(index) : index[i] = t
    THEN CHOOSE i \in 1..Len(index) : index[i] = t
    ELSE 0

\* a series reindexed to another index: NaN at labels it does not have
Reindex(series, index) ==
    [i \in 1..Len(index) |->
        IF PosOf(series.index, index[i]) = 0 THEN NaN
        ELSE series.vals[PosOf(series.index, index[i])]]

SetColumn_adopt(frame, col, series) ==
    [index |-> series.index,
     cols |-> [c \in (DOMAIN frame.cols) \cup {col} |->
                 IF c = col THEN series.vals
                 ELSE Reindex([index |-> frame.index, vals |-> frame.cols[c]],
                              series.index)]]

\* frame[col] = series: an empty frame takes the labels of the series, any
\* other frame keeps its own and the series is reindexed to them
SetColumn(frame, col, series) ==
    IF Len(frame.index) = 0 /\ Len(series.index) > 0
    THEN [index |-> series.index,
          cols |-> [c \in (DOMAIN frame.cols) \cup {col} |->
                       IF c = col THEN series.vals
                       ELSE [i \in 1..Len(series.index) |-> NaN]]]
    ELSE [index |-> frame.index,
          cols |-> [c \in (DOMAIN frame.cols) \cup {col} |->
                       IF c = col THEN Reindex(series, frame.index)
                       ELSE frame.cols[c]]]

\* the labels of a set in increasing order
RECURSIVE Sorted(_)
Sorted(labels) ==
    IF labels = {} THEN << >>
    ELSE LET least == CHOOSE t \in labels : \A u \in labels : t <= u
         IN <<least>> \o Sorted(labels \ {least})

Labels(index) == {index[i] : i \in 1..Len(index)}

\* frame[col] + series: the operands are aligned on the union of their
\* labels, and a label that one of them lacks gets NaN
ColumnPlus(frame, col, series) ==
    LET left == [index |-> frame.index, vals |-> frame.cols[col]]
        union == IF frame.index = series.index THEN frame.index
                 ELSE Sorted(Labels(frame.index) \cup Labels(series.index))
    IN [index |-> union,
        vals |-> [i \in 1..Len(union) |->
                    CellAdd(Reindex(left, union)[i], Reindex(series, union)[i])]]

ReplaceNaN_none(frame) == frame

\* frame.replace(np.nan, 0)
ReplaceNaN(frame) ==
    [index |-> frame.index,
     cols |-> [c \in DOMAIN frame.cols |->
                 [i \in 1..Len(frame.index) |->
                     IF IsNaN(frame.cols[c][i]) THEN Fin(0) ELSE frame.cols[c][i]]]]

\* ---------------------------------------- create_loadshape_pmult_dataframe
create_loadshape_pmult_dataframe(s, shape) ==
    [index |-> [i \in 1..Len(shape.pmult) |->
                   s.loadshape_start_time + (i - 1) * shape.sinterval],
     vals |-> [i \in 1..Len(shape.pmult) |-> Fin(shape.pmult[i])]]

\* (shape * rating)[0]
Scaled(series, rating) ==
    [index |-> series.index,
     vals |-> [i \in 1..Len(series.vals) |-> Fin(series.vals[i].n * rating)]]

\* --------------------------------------------- lines 81-93 and 98-109
EmptyCache == [nm \in {} |-> EmptyFrame]

\* a dict of shapes that is not bound (not assigned yet, or deleted)
Unbound == [bound |-> FALSE, dict |-> EmptyCache]

Cached_never(cache, profile_name) == FALSE

\* profile_name in cache.keys()
Cached(cache, profile_name) == profile_name \in DOMAIN cache

LoadShape_Name_skipped(active, profile_name) == active

\* dss.LoadShape.Name(profile_name): the engine selects the shape of that name
LoadShape_Name(active, profile_name) == profile_name

\* lines 85-88 and 102-105: the shape of the device is selected in the
\* engine, and materialized from the engine's selected shape when its name
\* is not in the cache; st is [frame, cache, log, active]
Materialize(st, pass, profile_name, s, shapes) ==
    LET active == LoadShape_Name(st.active, profile_name)
    IN IF Cached(st.cache, profile_name) THEN [st EXCEPT !.active = active]
       ELSE [st EXCEPT
               !.active = active,
               !.cache = [nm \in (DOMAIN st.cache) \cup {profile_name} |->
                            IF nm = profile_name
                            THEN create_loadshape_pmult_dataframe(s, shapes[active])
                            ELSE st.cache[nm]],
               !.log = Append(st.log, [pass |-> pass, name |-> profile_name,
                                       active |-> active])]

\* the loop over the PV systems; the cache is the dict pv_shapes
RECURSIVE PVLoop(_, _, _, _)
PVLoop(st, devs, s, shapes) ==
    IF devs = << >> THEN st
    ELSE LET pmpp == Head(devs).Pmpp
             profile_name == Head(devs).yearly
             st2 == Materialize(st, "pv", profile_name, s, shapes)
             contribution == Scaled(st2.cache[profile_name], pmpp)
             frame2 == IF Len(st.frame.index) = 0
                       THEN ReplaceNaN(SetColumn(st.frame, "PV", contribution))
                       ELSE SetColumn(st.frame, "PV",
                                      ColumnPlus(st.frame, "PV", contribution))
         IN PVLoop([st2 EXCEPT !.frame = frame2], Tail(devs), s, shapes)

\* the loop over the loads; the cache is the dict load_shapes
RECURSIVE LoadLoop(_, _, _, _)
LoadLoop(st, devs, s, shapes) ==
    IF devs = << >> THEN st
    ELSE LET kw == Head(devs).kW
             profile_name == Head(devs).yearly
             st2 == Materialize(st, "load", profile_name, s, shapes)
             contribution == Scaled(st2.cache[profile_name], kw)
             frame2 == IF Len(st.frame.index) = 0
                       THEN SetColumn(st.frame, "Load", contribution)
                       ELSE SetColumn(st.frame, "Load",
                                      ColumnPlus(st.frame, "Load", contribution))
         IN LoadLoop([st2 EXCEPT !.frame = frame2], Tail(devs), s, shapes)

\* ------------------------------------------------------- lines 111-113
WithDerivedColumns(frame) ==
    [index |-> frame.index,
     cols |-> [c \in (DOMAIN frame.cols) \cup {"PV to Load Ratio", "PV minus Load"} |->
                 IF c = "PV to Load Ratio"
                 THEN [i \in 1..Len(frame.index) |->
                          CellDiv(frame.cols["PV"][i], frame.cols["Load"][i])]
                 ELSE IF c = "PV minus Load"
                 THEN [i \in 1..Len(frame.index) |->
                          CellSub(frame.cols["PV"][i], frame.cols["Load"][i])]
                 ELSE frame.cols[c]]]

\* ------------------------------------------------ between_time, idxmax/min
TimeOfDay(t) == t % (24 * 60)

InWindow_open_start(t) ==
    /\ TimeOfDay(t) > pv_generation_hours.start_time
    /\ TimeOfDay(t) <= pv_generation_hours.end_time

InWindow(t) ==
    /\ TimeOfDay(t) >= pv_generation_hours.start_time
    /\ TimeOfDay(t) <= pv_generation_hours.end_time

\* the positions of the rows between_time keeps, in index order
RECURSIVE KeptFrom(_, _)
KeptFrom(index, i) ==
    IF i > Len(index) THEN << >>
    ELSE (IF InWindow(index[i]) THEN <<i>> ELSE << >>) \o KeptFrom(index, i + 1)

between_time(frame) ==
    LET kept == KeptFrom(frame.index, 1)
    IN [index |-> [j \in 1..Len(kept) |-> frame.index[kept[j]]],
        cols |-> [c \in DOMAIN frame.cols |->
                     [j \in 1..Len(kept) |-> frame.cols[c][kept[j]]]]]

\* the rows of a series that are not NaN (skipna)
Valid(vals) == {i \in 1..Len(vals) : ~IsNaN(vals[i])}

ArgMax_first_row(vals) == CHOOSE i \in Valid(vals) : \A j \in Valid(vals) : i <= j

ArgMax_last(vals) ==
    CHOOSE i \in Valid(vals) :
        /\ \A j \in Valid(vals) : ~CellLt(vals[i], vals[j])
        /\ \A j \in Valid(vals) : j > i => CellLt(vals[j], vals[i])

\* numpy argmax / argmin: the first position holding the extreme
ArgMax(vals) ==
    CHOOSE i \in Valid(vals) :
        /\ \A j \in Valid(vals) : ~CellLt(vals[i], vals[j])
        /\ \A j \in Valid(vals) : j < i => CellLt(vals[j], vals[i])

ArgMin(vals) ==
    CHOOSE i \in Valid(vals) :
        /\ \A j \in Valid(vals) : ~CellLt(vals[j], vals[i])
        /\ \A j \in Valid(vals) : j < i => CellLt(vals[i], vals[j])

\* Series.idxmax / idxmin of frame[col]: raises ValueError on an empty series,
\* gives NaN on a series that is all NaN, skips NaN otherwise
idx(frame, col, wantMax) ==
    LET vals == frame.cols[col]
    IN IF Len(vals) = 0
       THEN [raised |-> "ValueError", t |-> NaT]
       ELSE IF Valid(vals) = {}
       THEN [raised |-> "", t |-> NaT]
       ELSE [raised |-> "",
             t |-> frame.index[IF wantMax THEN ArgMax(vals) ELSE ArgMin(vals)]]

\* ------------------------------------------------------- lines 115-126
Criteria_daytime_with_pv(pv) ==
    << [name |-> "Max Load", col |-> "Load", daytime |-> FALSE, wantMax |-> TRUE] >>
    \o (IF pv # << >>
        THEN << [name |-> "Max PV to Load Ratio", col |-> "PV to Load Ratio",
                 daytime |-> TRUE, wantMax |-> TRUE],
                [name |-> "Max PV minus Load", col |-> "PV minus Load",
                 daytime |-> TRUE, wantMax |-> TRUE],
                [name |-> "Max PV", col |-> "PV", daytime |-> TRUE, wantMax |-> TRUE] >>
        ELSE << >>)
    \o << [name |-> "Min Load", col |-> "Load", daytime |-> FALSE, wantMax |-> FALSE] >>
    \o (IF pv # << >>
        THEN << [name |-> "Min Daytime Load", col |-> "Load", daytime |-> TRUE,
                 wantMax |-> FALSE] >>
        ELSE << >>)

Criteria_reordered(pv) ==
    << [name |-> "Min Load", col |-> "Load", daytime |-> FALSE, wantMax |-> FALSE],
       [name |-> "Max Load", col |-> "Load", daytime |-> FALSE, wantMax |-> TRUE] >>
    \o (IF pv # << >>
        THEN << [name |-> "Max PV to Load Ratio", col |-> "PV to Load Ratio",
                 daytime |-> TRUE, wantMax |-> TRUE],
                [name |-> "Max PV minus Load", col |-> "PV minus Load",
                 daytime |-> TRUE, wantMax |-> TRUE],
                [name |-> "Max PV", col |-> "PV", daytime |-> TRUE, wantMax |-> TRUE] >>
        ELSE << >>)
    \o << [name |-> "Min Daytime Load", col |-> "Load", daytime |-> TRUE,
           wantMax |-> FALSE] >>

\* the candidates in the order the code computes them
Criteria(pv) ==
    << [name |-> "Max Load", col |-> "Load", daytime |-> FALSE, wantMax |-> TRUE] >>
    \o (IF pv # << >>
        THEN << [name |-> "Max PV to Load Ratio", col |-> "PV to Load Ratio",
                 daytime |-> TRUE, wantMax |-> TRUE],
                [name |-> "Max PV minus Load", col |-> "PV minus Load",
                 daytime |-> TRUE, wantMax |-> TRUE],
                [name |-> "Max PV", col |-> "PV", daytime |-> TRUE, wantMax |-> TRUE] >>
        ELSE << >>)
    \o << [name |-> "Min Load", col |-> "Load", daytime |-> FALSE, wantMax |-> FALSE],
          [name |-> "Min Daytime Load", col |-> "Load", daytime |-> TRUE,
           wantMax |-> FALSE] >>

\* the frame that never got an index has object columns: argmax refuses them
Candidate(frame, crit) ==
    IF Len(frame.index) = 0
    THEN [raised |-> "TypeError", t |-> NaT]
    ELSE idx(IF crit.daytime THEN between_time(frame) ELSE frame, crit.col, crit.wantMax)

\* the statements of lines 116-126 in order, stopping at the first that raises
RECURSIVE ComputeTimepoints(_, _, _)
ComputeTimepoints(frame, crits, acc) ==
    IF crits = << >> THEN [timepoints |-> acc, raised |-> ""]
    ELSE LET r == Candidate(frame, Head(crits))
         IN IF r.raised # ""
            THEN [timepoints |-> acc, raised |-> r.raised]
            ELSE ComputeTimepoints(frame, Tail(crits),
                                   Append(acc, [name |-> Head(crits).name, t |-> r.t]))

\* timepoints.loc[name], rows looked up by label
HasRow(tp, name) == \E i \in 1..Len(tp) : tp[i].name = name

Row(tp, name) == tp[CHOOSE i \in 1..Len(tp) : tp[i].name = name].t

\* ------------------------------------------------------- lines 68-77
ColumnOf_swapped(m) ==
    IF m = "max_load" THEN "Max Load"
    ELSE IF m = "max_pv_load_ratio" THEN "Max PV to Load Ratio"
    ELSE IF m = "daytime_min_load" THEN "Min Load"
    ELSE IF m = "pv_minus_load" THEN "Max PV minus Load"
    ELSE ""

ColumnOf_default(m) ==
    IF m = "max_pv_load_ratio" THEN "Max PV to Load Ratio"
    ELSE IF m = "daytime_min_load" THEN "Min Daytime Load"
    ELSE IF m = "pv_minus_load" THEN "Max PV minus Load"
    ELSE "Max Load"

ColumnOf(m) ==
    IF m = "max_load" THEN "Max Load"
    ELSE IF m = "max_pv_load_ratio" THEN "Max PV to Load Ratio"
    ELSE IF m = "daytime_min_load" THEN "Min Daytime Load"
    ELSE IF m = "pv_minus_load" THEN "Max PV minus Load"
    ELSE ""

Override_never(pv, m) == FALSE

Override_any_topology(pv, m) == m # MAX_LOAD

\* lines 63 and 65: the mode is overridden
Override(pv, m) == pv = << >> /\ m # MAX_LOAD

\* lines 63-67: the mode after the check for PV systems
ResolvedMode(pv, m) == IF Override(pv, m) THEN MAX_LOAD ELSE m

\* ------------------------------------------------------------ the circuit
\* the engine lists the devices in a fixed order; the i-th device of a class
\* is rated i (kW or Pmpp)
PVLists ==
    UNION {[1..n -> ShapeNames] : n \in 0..MaxDevices}

PVSystemsOf(names) == [i \in 1..Len(names) |-> [Pmpp |-> i, yearly |-> names[i]]]

LoadsOf(names) == [i \in 1..Len(names) |-> [kW |-> i, yearly |-> names[i]]]

\* S1 has MaxNpts points and S2 one point less, both at the same interval
LoadShapeSets ==
    {[nm \in ShapeNames |->
        [pmult |-> IF nm = "S1" THEN p1 ELSE p2, sinterval |-> iv]] :
        p1 \in [1..MaxNpts -> 0..MaxMult],
        p2 \in [1..(MaxNpts - 1) -> 0..MaxMult],
        iv \in Intervals}

\* ------------------------------------------------- the pipeline template
\* the text files a creator writes (base.py, lines 154-164 and 234)
TextFiles ==
    {"pipeline-prescreen-auto-config.txt", "pipeline-simulation-auto-config.txt",
     "pipeline-postprocess-auto-config.txt", "pipeline-postprocess-command.txt"}

NoFile == [exists |-> FALSE, lines |-> << >>]

\* open(text_file, "w") and write: the file holds these lines and no others
WriteText(files, text_file, lines) ==
    [files EXCEPT ![text_file] = [exists |-> TRUE, lines |-> lines]]

\* the template files: a simulation section always, a model section unless
\* the models are preconfigured, prescreen and postprocess sections at will
Templates ==
    {[preconfigured |-> p,
      sections |-> {"simulation"} \cup opt \cup (IF p THEN {} ELSE {"model"})] :
        p \in BOOLEAN, opt \in SUBSET {"prescreen", "postprocess"}}

contains_prescreen_never(data) == FALSE

contains_prescreen(data) == "prescreen" \in data.sections

contains_postprocess(data) == "postprocess" \in data.sections

\* get_command_params and get_command_options read self.data[section]
HasSection(data, section) == section \in data.sections

\* ----------------------------------------------------- PipelineCreatorBase
create_prescreen_auto_config_text_file_transform_last(data, files) ==
    LET temp == IF ~data.preconfigured THEN <<"transform-model">> ELSE << >>
    IN WriteText(files, "pipeline-prescreen-auto-config.txt",
                 <<"config prescreen", "prescreen create">> \o temp)

\* lines 190-204
create_prescreen_auto_config_text_file(data, files) ==
    LET temp == IF ~data.preconfigured THEN <<"transform-model">> ELSE << >>
    IN WriteText(files, "pipeline-prescreen-auto-config.txt",
                 temp \o <<"config prescreen", "prescreen create">>)

create_simulation_auto_config_text_file_no_filter(data, files) ==
    LET temp == IF ~data.preconfigured THEN <<"transform-model">> ELSE << >>
    IN WriteText(files, "pipeline-simulation-auto-config.txt",
                 temp \o <<"config simulation">>)

create_simulation_auto_config_text_file_prescreen_name(data, files) ==
    LET temp == IF ~data.preconfigured THEN <<"transform-model">> ELSE << >>
    IN WriteText(files, "pipeline-prescreen-auto-config.txt",
                 IF contains_prescreen(data) THEN <<"prescreen filter-config">>
                 ELSE temp \o <<"config simulation">>)

\* lines 206-220
create_simulation_auto_config_text_file(data, files) ==
    LET temp == IF ~data.preconfigured THEN <<"transform-model">> ELSE << >>
    IN WriteText(files, "pipeline-simulation-auto-config.txt",
                 IF contains_prescreen(data) THEN <<"prescreen filter-config">>
                 ELSE temp \o <<"config simulation">>)

\* lines 233-238
create_postprocess_command_text_file(files) ==
    WriteText(files, "pipeline-postprocess-command.txt", <<"postprocess">>)

\* lines 222-231, for a template that has the postprocess section
create_postprocess_auto_config_text_file(files) ==
    WriteText(create_postprocess_command_text_file(files),
              "pipeline-postprocess-auto-config.txt",
              <<"jade config create pipeline-postprocess-command.txt">>)

\* what a make_*_stage call leaves: the counter, the files, the stage it
\* returned (none when it raised) and the exception
Made(n, files, stage, raised) ==
    [stage_num |-> n, text_files |-> files, stage |-> stage, raised |-> raised]

\* lines 240-256.  Without a prescreen section the reads of the section
\* raise KeyError; whether the commands of the text file could be made
\* before that is the subclass's matter (commands_made).
make_prescreen_stage(data, n, files, commands_made) ==
    IF HasSection(data, "prescreen")
    THEN Made(n + 1, create_prescreen_auto_config_text_file(data, files),
              <<[kind |-> "prescreen", stage_num |-> n + 1,
                 auto_config_text_file |-> "pipeline-prescreen-auto-config.txt",
                 config_file |-> "prescreen_config_file"]>>, "")
    ELSE Made(n + 1,
              IF commands_made
              THEN create_prescreen_auto_config_text_file(data, files) ELSE files,
              << >>, "KeyError")

make_simulation_stage_same_number(data, n, files) ==
    Made(n, create_simulation_auto_config_text_file(data, files),
         <<[kind |-> "simulation", stage_num |-> n,
            auto_config_text_file |-> "pipeline-simulation-auto-config.txt",
            config_file |-> IF contains_prescreen(data) THEN "filtered_config_file"
                            ELSE "config_file"]>>, "")

\* lines 258-280
make_simulation_stage(data, n, files) ==
    Made(n + 1, create_simulation_auto_config_text_file(data, files),
         <<[kind |-> "simulation", stage_num |-> n + 1,
            auto_config_text_file |-> "pipeline-simulation-auto-config.txt",
            config_file |-> IF contains_prescreen(data) THEN "filtered_config_file"
                            ELSE "config_file"]>>, "")

\* lines 282-298.  Without a postprocess section get_config_options raises
\* KeyError after the command file was written, when its command could be
\* made (commands_made).
make_postprocess_stage(data, n, files, commands_made) ==
    IF HasSection(data, "postprocess")
    THEN Made(n + 1, create_postprocess_auto_config_text_file(files),
              <<[kind |-> "postprocess", stage_num |-> n + 1,
                 auto_config_text_file |-> "pipeline-postprocess-auto-config.txt",
                 config_file |-> "postprocess config_file"]>>, "")
    ELSE Made(n + 1,
              IF commands_made THEN create_postprocess_command_text_file(files)
              ELSE files,
              << >>, "KeyError")

\* create_pipeline of the creators: the prescreen stage when the template
\* contains the section, the simulation stage, the postprocess stage when
\* the template contains the section, in this order, then the config file.
\* The result is [stage_num, text_files, stages].
create_pipeline(data, n, files) ==
    LET pre == IF contains_prescreen(data)
               THEN make_prescreen_stage(data, n, files, TRUE)
               ELSE Made(n, files, << >>, "")
        sim == make_simulation_stage(data, pre.stage_num, pre.text_files)
        post == IF contains_postprocess(data)
                THEN make_postprocess_stage(data, sim.stage_num, sim.text_files, TRUE)
                ELSE Made(sim.stage_num, sim.text_files, << >>, "")
    IN [stage_num |-> post.stage_num, text_files |-> post.text_files,
        stages |-> pre.stage \o sim.stage \o post.stage]

\* the state of a call that has not started
CallStart ==
    /\ pc = "start"
    /\ mode = requested
    /\ overridden = FALSE
    /\ column = ""
    /\ aggregate_profiles = EmptyFrame
    /\ timepoints = << >>
    /\ report = << >>
    /\ report_written = FALSE
    /\ result = NaT
    /\ error = ""
    /\ pv_shapes = Unbound
    /\ load_shapes = Unbound
    /\ materialized = << >>
    /\ build = [asserts |-> "unset", nat |-> "unset"]
    /\ prev = << >>

\* a creator that is not used
NoCreator ==
    /\ template_data = [preconfigured |-> FALSE, sections |-> {"model", "simulation"}]
    /\ stage_num = 0
    /\ stages = << >>
    /\ text_files = [f \in TextFiles |-> NoFile]
    /\ pipeline_config = [written |-> FALSE, stages |-> << >>]
    /\ pipeline_error = ""
    /\ calls = << >>

\* A string is the sequence of its characters.  A value of a template
\* parameter is a string, a boolean, None or an integer.
V_Str(s) == [t |-> "str", s |-> s, b |-> FALSE, n |-> 0]
V_Bool(b) == [t |-> "bool", s |-> << >>, b |-> b, n |-> 0]
V_None == [t |-> "none", s |-> << >>, b |-> FALSE, n |-> 0]
V_Int(n) == [t |-> "int", s |-> << >>, b |-> FALSE, n |-> n]

Null == <<"n", "u", "l", "l">>

\* no error code worked out yet
NoReports == error_codes = << >>

\* no option string asked for
NoOptions ==
    /\ params = << >>
    /\ options = [made |-> FALSE, string |-> << >>]

\* no PipelineTemplate object in use
NoTemplate ==
    /\ template_file = [transform_params |-> << >>, hpc_config |-> V_None]
    /\ environ = << >>
    /\ instance = template_file
    /\ seen = [n |-> 0, data |-> template_file]
    /\ returned = << >>

\* nothing but the selection call and the creator has run
Idle == NoReports /\ NoOptions /\ NoTemplate

Init ==
    /\ settings \in [loadshape_start_time : StartTimes]
    /\ loadshapes \in LoadShapeSets
    /\ \E names \in PVLists : pv_systems = PVSystemsOf(names)
    /\ \E names \in PVLists : loads = LoadsOf(names)
    /\ requested \in SnapshotTimePointSelectionMode
    /\ active_shape = "S1"
    /\ CallStart
    /\ NoCreator
    /\ Idle

\* ------------------------------------------------------------- the actions
Raise(e) ==
    /\ pc' = "failed"
    /\ error' = e

\* a choice the build makes: made when it first matters, the same from then on
Chosen(field, outcomes) ==
    IF build[field] = "unset" THEN outcomes ELSE {build[field]}

\* lines 62-77: override of the mode and choice of the column.  The check of
\* an unsupported mode is an assert statement: it raises AssertionError, and
\* under python -O it is compiled away and column stays unbound.
ResolveMode ==
    /\ pc = "start"
    /\ mode' = ResolvedMode(pv_systems, mode)
    /\ overridden' = Override(pv_systems, mode)
    /\ column' = ColumnOf(mode')
    /\ IF ColumnOf(mode') # ""
       THEN pc' = "pv" /\ error' = error /\ build' = build
       ELSE \E a \in Chosen("asserts", {"on", "off"}) :
               /\ build' = [build EXCEPT !.asserts = a]
               /\ IF a = "on" THEN Raise("AssertionError")
                  ELSE pc' = "pv" /\ error' = error
    /\ UNCHANGED <<env, aggregate_profiles, timepoints, report, report_written, result,
                   pv_shapes, load_shapes, materialized, prev, pipe, aux, active_shape>>

\* lines 79-93
AggregatePV ==
    /\ pc = "pv"
    /\ LET st == PVLoop([frame |-> EmptyFrame, cache |-> EmptyCache,
                         log |-> materialized, active |-> active_shape], pv_systems, settings, loadshapes)
       IN /\ aggregate_profiles' = st.frame
          /\ pv_shapes' = [bound |-> TRUE, dict |-> st.cache]
          /\ active_shape' = st.active
          /\ materialized' = st.log
    /\ pc' = "del_pv_shapes"
    /\ UNCHANGED <<env, mode, overridden, column, timepoints, report, report_written,
                   result, error, load_shapes, build, prev, pipe, aux>>

\* line 94: del pv_shapes
DiscardPVShapes ==
    /\ pc = "del_pv_shapes"
    /\ pv_shapes' = Unbound
    /\ pc' = "loads"
    /\ UNCHANGED <<env, mode, overridden, column, aggregate_profiles, timepoints,
                   report, report_written, result, error, load_shapes, materialized,
                   build, prev, pipe, aux, active_shape>>

\* lines 95-109
AggregateLoads ==
    /\ pc = "loads"
    /\ LET st == LoadLoop([frame |-> aggregate_profiles, cache |-> EmptyCache,
                           log |-> materialized, active |-> active_shape], loads, settings, loadshapes)
       IN /\ aggregate_profiles' = st.frame
          /\ load_shapes' = [bound |-> TRUE, dict |-> st.cache]
          /\ active_shape' = st.active
          /\ materialized' = st.log
    /\ pc' = "derive"
    /\ UNCHANGED <<env, mode, overridden, column, timepoints, report, report_written,
                   result, error, pv_shapes, build, prev, pipe, aux>>

\* lines 110-113: del load_shapes, then the derived columns
DeriveColumns ==
    /\ pc = "derive"
    /\ load_shapes' = Unbound
    /\ aggregate_profiles' = IF pv_systems # << >>
                             THEN WithDerivedColumns(aggregate_profiles)
                             ELSE aggregate_profiles
    /\ pc' = "select"
    /\ UNCHANGED <<env, mode, overridden, column, timepoints, report, report_written,
                   result, error, pv_shapes, materialized, build, prev, pipe, aux, active_shape>>

\* lines 115-126
SelectTimepoints ==
    /\ pc = "select"
    /\ LET r == ComputeTimepoints(aggregate_profiles, Criteria(pv_systems), << >>)
       IN /\ timepoints' = r.timepoints
          /\ IF r.raised # "" THEN Raise(r.raised)
             ELSE pc' = "dump" /\ error' = error
    /\ UNCHANGED <<env, mode, overridden, column, aggregate_profiles, report,
                   report_written, result, pv_shapes, load_shapes, materialized,
                   build, prev, pipe, aux, active_shape>>

dump_data_append(file, data) == file \o data

\* dump_data(data, output_filename): the file holds the data of this call
dump_data(file, data) == data

\* lines 127-128
DumpReport ==
    /\ pc = "dump"
    /\ report' = dump_data(report, timepoints)
    /\ report_written' = TRUE
    /\ pc' = "return"
    /\ UNCHANGED <<env, mode, overridden, column, aggregate_profiles, timepoints,
                   result, error, pv_shapes, load_shapes, materialized, build, prev,
                   pipe, aux, active_shape>>

\* line 129: timepoints.loc[column][0].to_pydatetime().  A candidate that is
\* NaN is a float without that method, or NaT when the column was converted
\* to datetimes, and NaT.to_pydatetime() gives NaT back.
Return ==
    /\ pc = "return"
    /\ IF column = ""
       THEN Raise("UnboundLocalError") /\ result' = result /\ build' = build
       ELSE IF ~HasRow(timepoints, column)
       THEN Raise("KeyError") /\ result' = result /\ build' = build
       ELSE IF Row(timepoints, column) = NaT
       THEN \E n \in Chosen("nat", {"raises", "nat"}) :
               /\ build' = [build EXCEPT !.nat = n]
               /\ IF n = "raises"
                  THEN Raise("AttributeError") /\ result' = result
                  ELSE pc' = "done" /\ result' = NaT /\ error' = error
       ELSE pc' = "done" /\ result' = Row(timepoints, column) /\ error' = error
                /\ build' = build
    /\ UNCHANGED <<env, mode, overridden, column, aggregate_profiles, timepoints,
                   report, report_written, pv_shapes, load_shapes, materialized,
                   prev, pipe, aux, active_shape>>

Next ==
    \/ ResolveMode
    \/ AggregatePV
    \/ DiscardPVShapes
    \/ AggregateLoads
    \/ DeriveColumns
    \/ SelectTimepoints
    \/ DumpReport
    \/ Return

Spec == Init /\ [][Next]_vars

\* what a finished call leaves behind for its caller
Outcome ==
    [pc |-> pc, result |-> result, error |-> error, timepoints |-> timepoints,
     report |-> report, report_written |-> report_written]

\* a second call of get_snapshot_timepoint with the same arguments, in the
\* same interpreter: the locals are new, the report file is still there
CallAgain ==
    /\ pc \in {"done", "failed"}
    /\ prev = << >>
    /\ prev' = <<Outcome>>
    /\ pc' = "start"
    /\ mode' = requested
    /\ overridden' = FALSE
    /\ column' = ""
    /\ aggregate_profiles' = EmptyFrame
    /\ timepoints' = << >>
    /\ result' = NaT
    /\ error' = ""
    /\ materialized' = << >>
    /\ UNCHANGED <<env, report, report_written, pv_shapes, load_shapes, build, pipe, aux, active_shape>>

NextTwice ==
    \/ ResolveMode
    \/ AggregatePV
    \/ DiscardPVShapes
    \/ AggregateLoads
    \/ DeriveColumns
    \/ SelectTimepoints
    \/ DumpReport
    \/ Return
    \/ CallAgain

SpecTwice == Init /\ [][NextTwice]_vars

\* calls that find either shape selected in the engine
InitSolver ==
    /\ settings \in [loadshape_start_time : {7 * 60}]
    /\ loadshapes \in LoadShapeSets
    /\ \E names \in PVLists : pv_systems = PVSystemsOf(names)
    /\ \E names \in PVLists : loads = LoadsOf(names)
    /\ requested \in {"none", "max_load"}
    /\ active_shape \in ShapeNames
    /\ CallStart
    /\ NoCreator
    /\ Idle

SpecSolver == InitSolver /\ [][Next]_vars

\* shapes that all have MaxNpts points
SameNptsShapeSets ==
    {[nm \in ShapeNames |-> [pmult |-> IF nm = "S1" THEN p1 ELSE p2, sinterval |-> 60]] :
        p1 \in [1..MaxNpts -> 0..MaxMult], p2 \in [1..MaxNpts -> 0..MaxMult]}

\* calls on a circuit whose shapes all have the same point count
InitSameNpts ==
    /\ settings \in [loadshape_start_time : {0, 7 * 60}]
    /\ loadshapes \in SameNptsShapeSets
    /\ \E names \in PVLists : pv_systems = PVSystemsOf(names)
    /\ \E names \in PVLists : loads = LoadsOf(names)
    /\ requested \in {"none", "max_load", "pv_minus_load"}
    /\ active_shape = "S1"
    /\ CallStart
    /\ NoCreator
    /\ Idle

SpecSameNpts == InitSameNpts /\ [][Next]_vars

\* ------------------------------------------------- the pipeline creator
\* a circuit for the specifications that make no selection call
NoCircuit ==
    /\ settings = [loadshape_start_time |-> 0]
    /\ loadshapes = [nm \in ShapeNames |-> [pmult |-> <<0>>, sinterval |-> 60]]
    /\ pv_systems = << >>
    /\ loads = << >>
    /\ requested = "max_load"
    /\ active_shape = "S1"

\* PipelineCreatorBase.__init__ on a template file
InitPipeline ==
    /\ NoCircuit
    /\ CallStart
    /\ template_data \in Templates
    /\ stage_num = 0
    /\ stages = << >>
    /\ text_files = [f \in TextFiles |-> NoFile]
    /\ pipeline_config = [written |-> FALSE, stages |-> << >>]
    /\ pipeline_error = ""
    /\ calls = << >>
    /\ Idle

\* the creator after a make_*_stage call
AfterMake(kind, made) ==
    /\ stage_num' = made.stage_num
    /\ text_files' = made.text_files
    /\ stages' = stages \o made.stage
    /\ pipeline_error' = made.raised
    /\ calls' = Append(calls, [kind |-> kind, raised |-> made.raised])
    /\ UNCHANGED <<template_data, pipeline_config, sel, aux>>

MakePrescreenStage ==
    /\ stage_num < MaxCalls
    /\ \E commands_made \in BOOLEAN :
          AfterMake("prescreen",
                    make_prescreen_stage(template_data, stage_num, text_files,
                                         commands_made))

MakeSimulationStage ==
    /\ stage_num < MaxCalls
    /\ AfterMake("simulation",
                 make_simulation_stage(template_data, stage_num, text_files))

MakePostprocessStage ==
    /\ stage_num < MaxCalls
    /\ \E commands_made \in BOOLEAN :
          AfterMake("postprocess",
                    make_postprocess_stage(template_data, stage_num, text_files,
                                           commands_made))

\* create_pipeline, and the dump of the stages into the pipeline config file
CreatePipeline ==
    /\ stage_num < MaxCalls
    /\ ~pipeline_config.written
    /\ LET r == create_pipeline(template_data, stage_num, text_files)
       IN /\ stage_num' = r.stage_num
          /\ text_files' = r.text_files
          /\ stages' = stages \o r.stages
          /\ pipeline_config' = [written |-> TRUE, stages |-> r.stages]
          /\ calls' = calls \o [i \in 1..Len(r.stages) |->
                                  [kind |-> r.stages[i].kind, raised |-> ""]]
    /\ pipeline_error' = ""
    /\ UNCHANGED <<template_data, sel, aux>>

NextPipeline ==
    \/ MakePrescreenStage
    \/ MakeSimulationStage
    \/ MakePostprocessStage
    \/ CreatePipeline

SpecPipeline == InitPipeline /\ [][NextPipeline]_vars

\* ----------------------------------------------------------- option strings
\* str(value), as an f-string formats it
str(value) ==
    CASE value.t = "str" -> value.s
      [] value.t = "int" -> <<<<"0", "1", "2", "3", "4", "5", "6", "7", "8", "9">>[value.n + 1]>>
      [] value.t = "bool" -> IF value.b THEN <<"T", "r", "u", "e">>
                             ELSE <<"F", "a", "l", "s", "e">>
      [] value.t = "none" -> <<"N", "o", "n", "e">>

\* s.replace(old, new) for characters old and new
replace(s, old, new) == [i \in 1..Len(s) |-> IF s[i] = old THEN new ELSE s[i]]

\* sep.join(strings)
RECURSIVE join(_, _)
join(sep, strings) ==
    IF strings = << >> THEN << >>
    ELSE IF Len(strings) = 1 THEN strings[1]
    ELSE strings[1] \o sep \o join(sep, Tail(strings))

Omitted_falsy(value) ==
    \/ value.t = "str" /\ value.s \in {Null, << >>}
    \/ value.t = "bool" /\ ~value.b
    \/ value.t = "none"
    \/ value.t = "int" /\ value.n = 0

\* line 89: value == "null" or value is False or value is None
Omitted(value) ==
    \/ value.t = "str" /\ value.s = Null
    \/ value.t = "bool" /\ ~value.b
    \/ value.t = "none"

\* lines 87-95: the list temp after the loop over params.items()
RECURSIVE OptionList(_)
OptionList(ps) ==
    IF ps = << >> THEN << >>
    ELSE LET param == Head(ps).name
             value == Head(ps).value
             dash_param == <<"-", "-">> \o replace(param, "_", "-")
         IN IF Omitted(value) THEN OptionList(Tail(ps))
            ELSE IF value.t = "bool" /\ value.b
            THEN <<dash_param>> \o OptionList(Tail(ps))
            ELSE <<dash_param \o <<"=">> \o str(value)>> \o OptionList(Tail(ps))

\* lines 85-97
_construct_options_string(ps) == join(<<" ">>, OptionList(ps))

\* lines 74-83: the options of a section's parameters
get_command_options(ps) == _construct_options_string(ps)

ParamNames == {<<"a">>, <<"a", "_", "b">>, <<"_", "c", "_">>}

ParamValues ==
    {V_Str(Null), V_Str(<< >>), V_Str(<<"x">>), V_None, V_Bool(FALSE), V_Bool(TRUE),
     V_Int(0), V_Int(1)}

\* the dicts of at most MaxParams parameters: no name twice
ParamDicts ==
    {ps \in UNION {[1..n -> [name : ParamNames, value : ParamValues]] : n \in 0..MaxParams} :
        \A i, j \in 1..Len(ps) : i # j => ps[i].name # ps[j].name}

InitOptions ==
    /\ NoCircuit
    /\ CallStart
    /\ NoCreator
    /\ NoReports
    /\ NoTemplate
    /\ params \in ParamDicts
    /\ options = [made |-> FALSE, string |-> << >>]

GetCommandOptions ==
    /\ ~options.made
    /\ options' = [made |-> TRUE, string |-> get_command_options(params)]
    /\ UNCHANGED <<params, sel, pipe, errs, tmpl>>

NextOptions == GetCommandOptions

SpecOptions == InitOptions /\ [][NextOptions]_vars

\* -------------------------------------------------------- PipelineTemplate
OutputDir == <<"$JADE_PIPELINE_OUTPUT_DIR">>

Output == <<"o", "u", "t", "p", "u", "t">>

\* os.path.join(a, b)
os_path_join(a, b) ==
    IF b # << >> /\ b[1] = "/" THEN b
    ELSE IF a = << >> \/ a[Len(a)] = "/" THEN a \o b
    ELSE a \o <<"/">> \o b

\* params[name]
ParamValue(ps, name) == ps[CHOOSE i \in 1..Len(ps) : ps[i].name = name].value

\* params[name] = value, for a name the dict has
SetParam(ps, name, value) ==
    [i \in 1..Len(ps) |-> IF ps[i].name = name THEN [ps[i] EXCEPT !.value = value]
                          ELSE ps[i]]

\* PipelineTemplate(template_file): the data are loaded from the file
PipelineTemplate(file) == file

template_cached(file, held) == held

\* lines 146-148: the property template of the creator
template(file, held) == PipelineTemplate(file)

\* lines 46-60 for the transform-params of the model section: the values
\* "null" become None in the object's own dict, which is returned
get_transform_params(data) ==
    [data EXCEPT !.transform_params =
        [i \in 1..Len(data.transform_params) |->
            IF data.transform_params[i].value = V_Str(Null)
            THEN [data.transform_params[i] EXCEPT !.value = V_None]
            ELSE data.transform_params[i]]]

\* lines 99-106: [data, value], the object's data after the call and the path
get_model_transform_output(data, env_dir) ==
    LET pipeline_output == IF env_dir # << >> THEN env_dir ELSE OutputDir
        after == get_transform_params(data)
    IN [data |-> after,
        value |-> os_path_join(pipeline_output,
                               ParamValue(after.transform_params, Output).s)]

\* lines 108-112: [data, value], the object's data after the call and the options
get_transform_options(data) ==
    LET read == get_transform_params(data)
        after == [read EXCEPT !.transform_params =
                    SetParam(read.transform_params, Output,
                             V_Str(os_path_join(OutputDir,
                                     ParamValue(read.transform_params, Output).s)))]
    IN [data |-> after, value |-> _construct_options_string(after.transform_params)]

HpcConfig == [t |-> "HpcConfig", s |-> << >>, b |-> FALSE, n |-> 0]

\* lines 243-245 (and 261-263, 285-287): the hpc_config read from the
\* submitter params, which then hold the HpcConfig object in its place
get_submitter_params(data) ==
    [data |-> [data EXCEPT !.hpc_config = HpcConfig],
     value |-> IF data.hpc_config.t = "str" THEN data.hpc_config.s
               ELSE <<data.hpc_config.t>>]

\* the value a call returns on an object with these data
ValueOf(call, data, env_dir) ==
    CASE call = "get_transform_options" -> get_transform_options(data).value
      [] call = "get_model_transform_output" -> get_model_transform_output(data, env_dir).value
      [] call = "get_submitter_params" -> get_submitter_params(data).value

TemplateFiles ==
    {[transform_params |-> <<[name |-> Output, value |-> V_Str(out)],
                             [name |-> <<"f", "_", "g">>, value |-> v]>>,
      hpc_config |-> V_Str(<<"h">>)] :
        out \in {<<"m">>, <<"/", "m">>}, v \in {V_Str(Null), V_Str(<<"x">>)}}

InitTemplate ==
    /\ NoCircuit
    /\ CallStart
    /\ NoCreator
    /\ NoReports
    /\ NoOptions
    /\ template_file \in TemplateFiles
    /\ environ \in {<< >>, <<"/", "d">>}
    /\ instance = PipelineTemplate(template_file)
    /\ seen = [n |-> 0, data |-> instance]
    /\ returned = << >>

\* a call on the object in use
CallOn(call, r) ==
    /\ Len(returned) < MaxOps
    /\ instance' = r.data
    /\ returned' = Append(returned, [call |-> call, value |-> r.value])
    /\ UNCHANGED <<template_file, environ, seen, sel, pipe, errs, opts>>

GetTransformOptions == CallOn("get_transform_options", get_transform_options(instance))

GetModelTransformOutput ==
    CallOn("get_model_transform_output", get_model_transform_output(instance, environ))

GetSubmitterParams == CallOn("get_submitter_params", get_submitter_params(instance))

\* the creator reads its property template and uses what it gets from then on
AccessTemplate ==
    /\ seen.n < MaxAccesses
    /\ instance' = template(template_file, instance)
    /\ seen' = [n |-> seen.n + 1, data |-> instance']
    /\ returned' = << >>
    /\ UNCHANGED <<template_file, environ, sel, pipe, errs, opts>>

NextTemplate ==
    \/ GetTransformOptions
    \/ GetModelTransformOutput
    \/ GetSubmitterParams
    \/ AccessTemplate

SpecTemplate == InitTemplate /\ [][NextTemplate]_vars

\* ------------------------------------------------------------ exceptions
\* the classes of exceptions.py
DiscoClasses ==
    {"DiscoBaseException", "AnalysisRunException", "AnalysisConfigurationException",
     "ExceededParallelLinesLimit", "ExceededParallelTransformersLimit",
     "UpgradesInvalidViolationIncrease", "OpenDssCompileError",
     "OpenDssConvergenceError", "PyDssConvergenceError",
     "PyDssConvergenceErrorCountExceeded", "PyDssConvergenceMaxError",
     "UpgradesExternalCatalogRequired", "UpgradesExternalCatalogMissingEquipmentType",
     "InvalidOpenDssElementError"}

\* classes a caller can derive from them, and classes that are not DISCO's
ExceptionClasses ==
    DiscoClasses \cup {"SubPyDssConvergenceError", "SubAnalysisRunException",
                       "SubOpenDssCompileError", "JadeBaseException", "Exception",
                       "ValueError"}

\* the base class of a class
Base(cls) ==
    CASE cls = "Exception" -> "object"
      [] cls \in {"JadeBaseException", "ValueError"} -> "Exception"
      [] cls = "DiscoBaseException" -> "JadeBaseException"
      [] cls = "SubPyDssConvergenceError" -> "PyDssConvergenceError"
      [] cls = "SubAnalysisRunException" -> "AnalysisRunException"
      [] cls = "SubOpenDssCompileError" -> "OpenDssCompileError"
      [] OTHER -> "DiscoBaseException"

RECURSIVE issubclass(_, _)
issubclass(cls, ancestor) ==
    IF cls = ancestor THEN TRUE
    ELSE IF cls = "object" THEN FALSE
    ELSE issubclass(Base(cls), ancestor)

\* the error_code entries of EXCEPTIONS_TO_ERROR_CODES
EXCEPTIONS_TO_ERROR_CODES ==
    [cls \in {"AnalysisConfigurationException", "ExceededParallelLinesLimit",
              "ExceededParallelTransformersLimit", "InvalidOpenDssElementError",
              "OpenDssCompileError", "OpenDssConvergenceError",
              "PyDssConvergenceError", "PyDssConvergenceErrorCountExceeded",
              "PyDssConvergenceMaxError", "UpgradesExternalCatalogRequired",
              "UpgradesExternalCatalogMissingEquipmentType",
              "UpgradesInvalidViolationIncrease"} |->
        CASE cls = "AnalysisConfigurationException" -> 114
          [] cls = "ExceededParallelLinesLimit" -> 115
          [] cls = "ExceededParallelTransformersLimit" -> 116
          [] cls = "InvalidOpenDssElementError" -> 117
          [] cls = "OpenDssCompileError" -> 118
          [] cls = "OpenDssConvergenceError" -> 119
          [] cls = "PyDssConvergenceError" -> 120
          [] cls = "PyDssConvergenceErrorCountExceeded" -> 121
          [] cls = "PyDssConvergenceMaxError" -> 122
          [] cls = "UpgradesExternalCatalogRequired" -> 123
          [] cls = "UpgradesExternalCatalogMissingEquipmentType" -> 124
          [] cls = "UpgradesInvalidViolationIncrease" -> 125]

get_error_code_from_exception_by_base(exception_class) ==
    IF ~issubclass(exception_class, "DiscoBaseException")
    THEN [raised |-> TRUE, code |-> -1]
    ELSE IF exception_class \in DOMAIN EXCEPTIONS_TO_ERROR_CODES
    THEN [raised |-> FALSE, code |-> EXCEPTIONS_TO_ERROR_CODES[exception_class]]
    ELSE IF Base(exception_class) \in DOMAIN EXCEPTIONS_TO_ERROR_CODES
    THEN [raised |-> FALSE, code |-> EXCEPTIONS_TO_ERROR_CODES[Base(exception_class)]]
    ELSE [raised |-> FALSE, code |-> 1]

\* lines 116-125; code -1 stands for no code, the call raised
get_error_code_from_exception(exception_class) ==
    IF ~issubclass(exception_class, "DiscoBaseException")
    THEN [raised |-> TRUE, code |-> -1]
    ELSE IF exception_class \in DOMAIN EXCEPTIONS_TO_ERROR_CODES
    THEN [raised |-> FALSE, code |-> EXCEPTIONS_TO_ERROR_CODES[exception_class]]
    ELSE [raised |-> FALSE, code |-> 1]

is_convergence_error_from_118(error_code) == error_code \in {118, 119, 120, 121, 122}

\* lines 128-130
is_convergence_error(error_code) == error_code \in {119, 120, 121, 122}

\* the return codes a job can end with: success, the generic code, the table
ReturnCodes == {0, 1} \cup (114..125)

InitErrors ==
    /\ NoCircuit
    /\ CallStart
    /\ NoCreator
    /\ error_codes = << >>
    /\ NoOptions
    /\ NoTemplate

\* a job ended with an exception of this class: its code is worked out
ReportException ==
    /\ Len(error_codes) < MaxReports
    /\ \E cls \in ExceptionClasses :
          LET r == get_error_code_from_exception(cls)
          IN error_codes' = Append(error_codes,
                 [cls |-> cls, raised |-> r.raised, code |-> r.code,
                  convergence |-> ~r.raised /\ is_convergence_error(r.code)])
    /\ UNCHANGED <<sel, pipe, opts, tmpl>>

\* a job ended with this return code
ReportCode ==
    /\ Len(error_codes) < MaxReports
    /\ \E code \in ReturnCodes :
          error_codes' = Append(error_codes,
                 [cls |-> "", raised |-> FALSE, code |-> code,
                  convergence |-> is_convergence_error(code)])
    /\ UNCHANGED <<sel, pipe, opts, tmpl>>

NextErrors ==
    \/ ReportException
    \/ ReportCode

SpecErrors == InitErrors /\ [][NextErrors]_vars

\* ------------------------------------------------------------------ claims
Finished == pc \in {"done", "failed"}

Index == aggregate_profiles.index

Pos(t) == PosOf(Index, t)

Cell(col, i) == aggregate_profiles.cols[col][i]

Defined(col) == {i \in 1..Len(Index) : ~IsNaN(Cell(col, i))}

\* the daily window 08:00-17:00, both ends included
Daytime(t) == (t % (24 * 60)) \in (8 * 60)..(17 * 60)

DaytimeRows(col) == {i \in Defined(col) : Daytime(Index[i])}

SameCell(a, b) == ~CellLt(a, b) /\ ~CellLt(b, a)

Keys(tp) == {tp[i].name : i \in 1..Len(tp)}

\* C1: with zero PV systems and a requested mode other than max_load the
\* effective mode is max_load, the column is Max Load and the timestamp
\* returned is the Max Load candidate.
C1_OverrideToMaxLoad ==
    (pc # "start" /\ pv_systems = << >> /\ requested # "max_load")
        => /\ mode = "max_load"
           /\ column = "Max Load"
           /\ overridden
           /\ pc = "done" => result = Row(timepoints, "Max Load")

C1_Witness ==
    /\ pc = "done"
    /\ pv_systems = << >>
    /\ requested = "max_pv_load_ratio"
    /\ result # NaT
    /\ result # Row(timepoints, "Min Load")

\* C2: with at least one PV system, or with max_load requested, the mode is
\* the requested one and no override is logged.
C2_ModeUnchanged ==
    (pc # "start" /\ (pv_systems # << >> \/ requested = "max_load"))
        => /\ mode = requested
           /\ ~overridden

C2_Witness ==
    /\ pc = "done"
    /\ pv_systems # << >>
    /\ requested = "daytime_min_load"
    /\ mode = "daytime_min_load"

\* C3: the timestamp returned by a successful call is the reported candidate
\* of the criterion that the fixed lookup gives for the effective mode.
C3_Lookup ==
    [m \in {"max_load", "max_pv_load_ratio", "daytime_min_load", "pv_minus_load"} |->
        CASE m = "max_load" -> "Max Load"
          [] m = "max_pv_load_ratio" -> "Max PV to Load Ratio"
          [] m = "daytime_min_load" -> "Min Daytime Load"
          [] m = "pv_minus_load" -> "Max PV minus Load"]

C3_ReturnsMappedCandidate ==
    pc = "done"
        => /\ mode \in DOMAIN C3_Lookup
           /\ column = C3_Lookup[mode]
           /\ HasRow(report, C3_Lookup[mode])
           /\ result = Row(report, C3_Lookup[mode])

C3_Witness ==
    /\ pc = "done"
    /\ mode = "daytime_min_load"
    /\ result # NaT
    /\ result # Row(report, "Min Load")
    /\ result # Row(report, "Max Load")

C5_GlobalExtremes ==
    /\ HasRow(timepoints, "Max Load") =>
         /\ Pos(Row(timepoints, "Max Load")) \in Defined("Load")
         /\ \A i \in Defined("Load") :
              ~CellLt(Cell("Load", Pos(Row(timepoints, "Max Load"))), Cell("Load", i))
    /\ HasRow(timepoints, "Min Load") =>
         /\ Pos(Row(timepoints, "Min Load")) \in Defined("Load")
         /\ \A i \in Defined("Load") :
              ~CellLt(Cell("Load", i), Cell("Load", Pos(Row(timepoints, "Min Load"))))
    /\ pc \in {"dump", "return", "done"} =>
         HasRow(timepoints, "Max Load") /\ HasRow(timepoints, "Min Load")

\* the maximum lies strictly inside the horizon and the minimum elsewhere
C5_Witness ==
    /\ pc = "done"
    /\ Pos(Row(timepoints, "Max Load")) > 1
    /\ Pos(Row(timepoints, "Max Load")) < Len(Index)
    /\ Pos(Row(timepoints, "Min Load")) # Pos(Row(timepoints, "Max Load"))
    /\ Defined("Load") = 1..Len(Index)

\* the column a daytime criterion is taken from
C6_Column ==
    [nm \in {"Max PV", "Max PV to Load Ratio", "Max PV minus Load", "Min Daytime Load"} |->
        CASE nm = "Max PV" -> "PV"
          [] nm = "Max PV to Load Ratio" -> "PV to Load Ratio"
          [] nm = "Max PV minus Load" -> "PV minus Load"
          [] nm = "Min Daytime Load" -> "Load"]

\* the cell of a daytime criterion at row i is at least as extreme as at row j
C6_AsExtreme(nm, i, j) ==
    IF nm = "Min Daytime Load"
    THEN ~CellLt(Cell(C6_Column[nm], j), Cell(C6_Column[nm], i))
    ELSE ~CellLt(Cell(C6_Column[nm], i), Cell(C6_Column[nm], j))

\* C6: every daytime candidate that is a timestamp is a label of the horizon
\* whose time of day lies in [08:00, 17:00], on whatever day, and its cell is
\* the extreme of the cells of all rows in the window that hold a value;
\* rows outside the window are not considered.  (A criterion whose rows in
\* the window hold no value at all has no timestamp: that case is C12's.)
C6_DaytimeCandidates ==
    \A nm \in DOMAIN C6_Column :
        (HasRow(timepoints, nm) /\ Row(timepoints, nm) # NaT)
            => /\ Daytime(Row(timepoints, nm))
               /\ Pos(Row(timepoints, nm)) \in DaytimeRows(C6_Column[nm])
               /\ \A j \in DaytimeRows(C6_Column[nm]) :
                    C6_AsExtreme(nm, Pos(Row(timepoints, nm)), j)

\* a returned Max PV candidate although a row outside the window holds more
\* PV, and a Min Daytime Load on the boundary 08:00 or 17:00
C6_Witness ==
    /\ pc = "done"
    /\ HasRow(timepoints, "Max PV")
    /\ Row(timepoints, "Max PV") # NaT
    /\ \E i \in Defined("PV") :
          /\ ~Daytime(Index[i])
          /\ CellLt(Cell("PV", Pos(Row(timepoints, "Max PV"))), Cell("PV", i))
    /\ Row(timepoints, "Min Daytime Load") # NaT
    /\ Row(timepoints, "Min Daytime Load") % (24 * 60) \in {8 * 60, 17 * 60}

\* the rows a criterion is taken over: the whole horizon for Max Load and
\* Min Load, the rows in the window for the daytime criteria
C7_Column(nm) == IF nm \in {"Max Load", "Min Load"} THEN "Load" ELSE C6_Column[nm]

C7_Eligible(nm) ==
    IF nm \in {"Max Load", "Min Load"} THEN Defined("Load")
    ELSE DaytimeRows(C6_Column[nm])

\* C7: no eligible row before the candidate of a criterion holds the same
\* value as the candidate: among the rows attaining the extreme the candidate
\* is the earliest.
C7_EarliestOfTies ==
    \A r \in 1..Len(timepoints) :
        timepoints[r].t # NaT =>
            \A i \in C7_Eligible(timepoints[r].name) :
                i < Pos(timepoints[r].t) =>
                    ~SameCell(Cell(C7_Column(timepoints[r].name), i),
                              Cell(C7_Column(timepoints[r].name), Pos(timepoints[r].t)))

\* the maximum Load and the minimum daytime Load are each attained twice
C7_Witness ==
    /\ pc = "done"
    /\ \E i \in Defined("Load") :
          /\ i > Pos(Row(timepoints, "Max Load"))
          /\ SameCell(Cell("Load", i), Cell("Load", Pos(Row(timepoints, "Max Load"))))
    /\ Row(timepoints, "Min Daytime Load") # NaT
    /\ \E i \in DaytimeRows("Load") :
          /\ i > Pos(Row(timepoints, "Min Daytime Load"))
          /\ SameCell(Cell("Load", i),
                      Cell("Load", Pos(Row(timepoints, "Min Daytime Load"))))

\* the earliest row holding the maximum Load
C8_EarliestMaxLoad ==
    CHOOSE i \in Defined("Load") :
        /\ \A j \in Defined("Load") : ~CellLt(Cell("Load", i), Cell("Load", j))
        /\ \A j \in Defined("Load") :
              j < i => CellLt(Cell("Load", j), Cell("Load", i))

\* C8: with zero PV systems, at least one load and a requested mode other
\* than none, the call succeeds and returns the earliest timestamp of the
\* maximum Load, wherever the horizon lies relative to the window.
C8_NoPVSucceeds ==
    (Finished /\ pv_systems = << >> /\ loads # << >> /\ requested # "none")
        => /\ pc = "done"
           /\ result = Index[C8_EarliestMaxLoad]

C9_All ==
    {"Max Load", "Min Load", "Max PV to Load Ratio", "Max PV minus Load", "Max PV",
     "Min Daytime Load"}

C10_ZeroLoadExcluded ==
    (loads # << >>
        /\ HasRow(timepoints, "Max PV to Load Ratio")
        /\ Row(timepoints, "Max PV to Load Ratio") # NaT)
        => Cell("PV to Load Ratio", Pos(Row(timepoints, "Max PV to Load Ratio"))).k = "fin"


\* C20: the pipeline config built from a template has exactly one stage per
\* stage section of the template: the simulation stage always, one more for
\* a prescreen section, one more for a postprocess section (1, 2 or 3).
C20_StageSections == template_data.sections \cap {"prescreen", "simulation", "postprocess"}

C11_ZeroLoadsNeverReturn == loads = << >> => pc # "done"

\* C12 as stated, in the part that needs no error class: with PV present and
\* a daytime criterion selected, a call gets past the selection of the
\* candidates only if some row of the criterion's series lies in the window
\* 08:00-17:00 and holds a value; otherwise the selection fails there.
C12_DaytimeNoDataFails ==
    (pv_systems # << >> /\ column \in DOMAIN C6_Column
        /\ pc \in {"dump", "return", "done"})
        => DaytimeRows(C6_Column[column]) # {}

\* C14 as stated: in the aggregate profile handed to the selector neither
\* Load nor PV holds an undefined value at any timestamp, also when a second
\* or later device has a shape without a value there.
C14_NoUndefined ==
    (pc = "select" /\ pv_systems # << >> /\ loads # << >>)
        => /\ Defined("Load") = 1..Len(Index)
           /\ Defined("PV") = 1..Len(Index)

\* the names of the rows of a report, in order
C16_Names(tp) == [i \in 1..Len(tp) |-> tp[i].name]

C16_Order ==
    IF pv_systems # << >>
    THEN <<"Max Load", "Max PV to Load Ratio", "Max PV minus Load", "Max PV",
           "Min Load", "Min Daytime Load">>
    ELSE <<"Max Load", "Min Load", "Min Daytime Load">>

\* C16: the keys of the report are in the order the criteria were computed:
\* Max Load, the PV-derived criteria when PV is present, Min Load, Min
\* Daytime Load; every candidate once, the same order on every call.
C16_ReportOrder ==
    /\ pc \in {"dump", "return", "done"} => C16_Names(timepoints) = C16_Order
    /\ report_written => C16_Names(report) = C16_Order

C16_Witness ==
    /\ pc = "done"
    /\ report_written
    /\ pv_systems # << >>
    /\ Len(report) = 6
    /\ report[2].t # report[4].t

\* C17 as stated: the report is written only by calls that then return a
\* timestamp; a call that fails has not written it.
C17_NoPartialReport ==
    (Finished /\ report_written) => (pc = "done" /\ result # NaT)

\* the aggregation loops of the call have run
AggregationDone ==
    \/ pc \in {"derive", "select", "dump", "return", "done"}
    \/ pc = "failed" /\ error # "AssertionError"

RECURSIVE C13_Sum(_)
C13_Sum(terms) == IF terms = << >> THEN 0 ELSE Head(terms) + C13_Sum(Tail(terms))

\* sum over the loads of kW times the multiplier of the load's shape at row i
C13_LoadAt(i) ==
    C13_Sum([j \in 1..Len(loads) |->
                loads[j].kW * loadshapes[loads[j].yearly].pmult[i]])

\* sum over the PV systems of Pmpp times the multiplier of their shape at row i
C13_PVAt(i) ==
    C13_Sum([j \in 1..Len(pv_systems) |->
                pv_systems[j].Pmpp * loadshapes[pv_systems[j].yearly].pmult[i]])

C15_FirstShape ==
    IF pv_systems # << >> THEN loadshapes[pv_systems[1].yearly]
    ELSE loadshapes[loads[1].yearly]

C15_Started ==
    \/ pc \in {"del_pv_shapes", "loads"} /\ pv_systems # << >>
    \/ AggregationDone /\ (pv_systems # << >> \/ loads # << >>)

\* C15: the index of the aggregate profile is the index of the first
\* materialized shape, the Npts timestamps start + i*interval, strictly
\* increasing and evenly spaced; later devices with more or fewer points
\* never add, remove or reorder timestamps.
C15_IndexOfFirstShape ==
    C15_Started
        => /\ Len(Index) = Len(C15_FirstShape.pmult)
           /\ \A i \in 1..Len(Index) :
                Index[i] = settings.loadshape_start_time
                             + (i - 1) * C15_FirstShape.sinterval
           /\ \A i \in 1..(Len(Index) - 1) : Index[i] < Index[i + 1]
           /\ \A c \in DOMAIN aggregate_profiles.cols :
                Len(aggregate_profiles.cols[c]) = Len(Index)

\* a shorter first shape followed by a longer one, and the reverse among
\* the loads
C15_Witness ==
    /\ pc = "done"
    /\ Len(pv_systems) = 2
    /\ pv_systems[1].yearly = "S2"
    /\ pv_systems[2].yearly = "S1"
    /\ Len(loads) = 2
    /\ loads[1].yearly = "S1"
    /\ Len(Index) = MaxNpts - 1

\* the shape names materialized in a pass, in order
C19_Log(pass) == SelectSeq(materialized, LAMBDA e : e.pass = pass)

C19_NamesOfPV == {pv_systems[i].yearly : i \in 1..Len(pv_systems)}

C19_NamesOfLoads == {loads[i].yearly : i \in 1..Len(loads)}

C19_Once(pass, names) ==
    /\ Len(C19_Log(pass)) = Cardinality(names)
    /\ {C19_Log(pass)[i].name : i \in 1..Len(C19_Log(pass))} = names

C19_PVPassDone ==
    pc \in {"del_pv_shapes", "loads"} \/ AggregationDone

\* C19: within the pass over one device class a shape is materialized once
\* per distinct shape name of the class, however many devices share it; the
\* PV cache is discarded before the load pass starts, so a name used by a PV
\* system and by a load is materialized once in each pass; no cache entry
\* survives the call.
C19_ShapeCache ==
    /\ C19_PVPassDone => C19_Once("pv", C19_NamesOfPV)
    /\ AggregationDone => C19_Once("load", C19_NamesOfLoads)
    /\ ~C19_PVPassDone => materialized = << >>
    /\ pc = "del_pv_shapes"
         => pv_shapes.bound /\ DOMAIN pv_shapes.dict = C19_NamesOfPV
    /\ pc = "loads" => ~pv_shapes.bound /\ ~load_shapes.bound
    /\ pc = "derive"
         => ~pv_shapes.bound /\ load_shapes.bound
              /\ DOMAIN load_shapes.dict = C19_NamesOfLoads
    /\ pc \in {"select", "dump", "return", "done", "failed"}
         => ~pv_shapes.bound /\ ~load_shapes.bound

\* two PV systems share a name that a load uses too
C19_Witness ==
    /\ pc = "done"
    /\ Len(pv_systems) = 2
    /\ pv_systems[1].yearly = pv_systems[2].yearly
    /\ Len(loads) = 2
    /\ loads[2].yearly = pv_systems[1].yearly
    /\ loads[1].yearly # loads[2].yearly
    /\ Len(materialized) = 3

\* C18: two calls with the same mode, topology, ratings and shape data give
\* the same candidate time points, the same report file contents and the
\* same returned timestamp or the same failure; the first call leaves no
\* state that changes the second.
C18_SecondCallSame ==
    (prev # << >> /\ Finished) => prev[1] = Outcome

C18_Witness ==
    /\ prev # << >>
    /\ pc = "done"
    /\ result # NaT
    /\ report_written
    /\ Len(pv_systems) = 2
    /\ Len(loads) = 2
    /\ result # Row(timepoints, "Max Load")

\* the text files of a stage
C21_OwnFiles(kind) ==
    CASE kind = "prescreen" -> {"pipeline-prescreen-auto-config.txt"}
      [] kind = "simulation" -> {"pipeline-simulation-auto-config.txt"}
      [] kind = "postprocess" -> {"pipeline-postprocess-auto-config.txt",
                                  "pipeline-postprocess-command.txt"}

C21_Ran(kind) == \E i \in 1..Len(calls) : calls[i].kind = kind

C21_Exist ==
    /\ \A kind \in {"prescreen", "simulation", "postprocess"} :
          \A f \in C21_OwnFiles(kind) : text_files[f].exists => C21_Ran(kind)
    /\ C21_Ran("simulation") => text_files["pipeline-simulation-auto-config.txt"].exists

\* a step changes only files of the stages whose make_*_stage it called
C21_Step ==
    \A f \in TextFiles :
        text_files'[f] # text_files[f]
            => \E i \in (Len(calls) + 1)..Len(calls') : f \in C21_OwnFiles(calls'[i].kind)

\* C21: making a stage writes only that stage's own text files: the
\* prescreen auto-config file exists only if make_prescreen_stage ran, the
\* postprocess auto-config file and command file only if
\* make_postprocess_stage ran, the simulation auto-config file exists after
\* make_simulation_stage ran; no call creates or rewrites another stage's file.
C21_OwnFilesOnly == [](C21_Exist) /\ [][C21_Step]_vars

C21_Witness ==
    /\ Len(calls) = 2
    /\ calls[1].kind = "postprocess"
    /\ calls[2].kind = "simulation"
    /\ text_files["pipeline-postprocess-auto-config.txt"].exists
    /\ text_files["pipeline-postprocess-command.txt"].exists
    /\ text_files["pipeline-simulation-auto-config.txt"].exists
    /\ ~text_files["pipeline-prescreen-auto-config.txt"].exists

\* C22 as stated: after any sequence of k make_*_stage calls the stages made
\* carry the numbers 1..k in call order, with no gap and no repeat.
C22_NumbersOneToK ==
    /\ Len(stages) = Len(calls)
    /\ \A i \in 1..Len(stages) : stages[i].stage_num = i

\* the positions, in the sequence of calls, of the calls that returned
C22_Returned == SelectSeq([i \in 1..Len(calls) |-> i], LAMBDA i : calls[i].raised = "")

\* C22, amended: a new creator starts at stage_num 0 and every make_*_stage
\* call raises stage_num by one, a call that raises included; a stage that is
\* returned carries the number of its call, so the numbers increase in call
\* order without repeat, and they are 1..k without gap when no call raised.
C22_NumberOfCall ==
    /\ stage_num = Len(calls)
    /\ Len(stages) = Len(C22_Returned)
    /\ \A j \in 1..Len(stages) :
          /\ stages[j].stage_num = C22_Returned[j]
          /\ stages[j].kind = calls[C22_Returned[j]].kind
    /\ \A i, j \in 1..Len(stages) : i < j => stages[i].stage_num < stages[j].stage_num
    /\ (\A i \in 1..Len(calls) : calls[i].raised = "")
          => \A j \in 1..Len(stages) : stages[j].stage_num = j

\* a call raised, and the stage made after it carries the number 2
C22_Witness ==
    /\ Len(calls) = 3
    /\ calls[1].raised = "KeyError"
    /\ Len(stages) = 2
    /\ stages[1].stage_num = 2
    /\ stages[2].stage_num = 3

C26_Text == text_files["pipeline-simulation-auto-config.txt"]

\* C26: with a prescreen section in the template the simulation auto-config
\* text is exactly the prescreen filter command and the simulation stage's
\* config file is the prescreen section's filtered_config_file; without one
\* the text is the simulation config command, preceded by the
\* transform-model command if and only if the template is not preconfigured,
\* and the config file is the simulation config-params' config_file.
C26_SimulationStage ==
    /\ C26_Text.exists
         => IF "prescreen" \in template_data.sections
            THEN C26_Text.lines = <<"prescreen filter-config">>
            ELSE IF template_data.preconfigured
            THEN C26_Text.lines = <<"config simulation">>
            ELSE C26_Text.lines = <<"transform-model", "config simulation">>
    /\ \A i \in 1..Len(stages) :
          stages[i].kind = "simulation"
            => /\ C26_Text.exists
               /\ stages[i].auto_config_text_file = "pipeline-simulation-auto-config.txt"
               /\ stages[i].config_file =
                    IF "prescreen" \in template_data.sections
                    THEN "filtered_config_file" ELSE "config_file"

C26_Witness ==
    /\ "prescreen" \in template_data.sections
    /\ ~template_data.preconfigured
    /\ Len(stages) = 1
    /\ stages[1].kind = "simulation"
    /\ stages[1].config_file = "filtered_config_file"
    /\ C26_Text.lines = <<"prescreen filter-config">>

C27_Text == text_files["pipeline-prescreen-auto-config.txt"]

C27_PosOf(line) ==
    IF \E i \in 1..Len(C27_Text.lines) : C27_Text.lines[i] = line
    THEN CHOOSE i \in 1..Len(C27_Text.lines) : C27_Text.lines[i] = line
    ELSE 0

\* C27: in the prescreen auto-config text the commands are one per line in
\* the order transform-model, config, prescreen-create; config comes before
\* prescreen-create, and transform-model is present, and first, if and only
\* if the template is not preconfigured.
C27_PrescreenText ==
    C27_Text.exists
        => /\ C27_PosOf("config prescreen") > 0
           /\ C27_PosOf("prescreen create") = C27_PosOf("config prescreen") + 1
           /\ C27_PosOf("prescreen create") = Len(C27_Text.lines)
           /\ (C27_PosOf("transform-model") > 0) <=> ~template_data.preconfigured
           /\ ~template_data.preconfigured => C27_PosOf("transform-model") = 1
           /\ Len(C27_Text.lines) = IF template_data.preconfigured THEN 2 ELSE 3

C27_Witness ==
    /\ C27_Text.exists
    /\ ~template_data.preconfigured
    /\ C27_Text.lines = <<"transform-model", "config prescreen", "prescreen create">>
    /\ \E i \in 1..Len(stages) : stages[i].kind = "prescreen"

C23_Mapped ==
    {"AnalysisConfigurationException", "ExceededParallelLinesLimit",
     "ExceededParallelTransformersLimit", "InvalidOpenDssElementError",
     "OpenDssCompileError", "OpenDssConvergenceError", "PyDssConvergenceError",
     "PyDssConvergenceErrorCountExceeded", "PyDssConvergenceMaxError",
     "UpgradesExternalCatalogRequired", "UpgradesExternalCatalogMissingEquipmentType",
     "UpgradesInvalidViolationIncrease"}

\* the classes of the model that derive from DiscoBaseException
C23_Derived ==
    DiscoClasses \cup {"SubPyDssConvergenceError", "SubAnalysisRunException",
                       "SubOpenDssCompileError"}

\* C23: get_error_code_from_exception returns the table's error_code for a
\* class that is itself a key of the table, the generic code 1 for every
\* other class deriving from DiscoBaseException (a subclass of a mapped class
\* included), and raises for a class not deriving from DiscoBaseException.
C23_CodeOfClass ==
    \A i \in 1..Len(error_codes) :
        LET e == error_codes[i]
        IN e.cls # ""
            => /\ e.cls \in C23_Mapped
                    => ~e.raised /\ e.code = EXCEPTIONS_TO_ERROR_CODES[e.cls]
                         /\ e.code \in 114..125
               /\ (e.cls \in C23_Derived \ C23_Mapped) => ~e.raised /\ e.code = 1
               /\ e.cls \notin C23_Derived => e.raised

C23_Witness ==
    /\ Len(error_codes) = 2
    /\ error_codes[1].cls = "SubPyDssConvergenceError"
    /\ error_codes[1].code = 1
    /\ error_codes[2].cls = "JadeBaseException"
    /\ error_codes[2].raised

C24_Convergence ==
    {"OpenDssConvergenceError", "PyDssConvergenceError",
     "PyDssConvergenceErrorCountExceeded", "PyDssConvergenceMaxError"}

\* C24: for every class E deriving from DiscoBaseException,
\* is_convergence_error(get_error_code_from_exception(E)) is true exactly
\* when E is one of the four convergence classes; success (0), the generic
\* code (1) and every other mapped code are not convergence errors.
C24_ConvergenceClasses ==
    \A i \in 1..Len(error_codes) :
        LET e == error_codes[i]
        IN /\ (e.cls \in C23_Derived) => (e.convergence <=> e.cls \in C24_Convergence)
           /\ e.cls = "" => (e.convergence <=> e.code \in {119, 120, 121, 122})
           /\ e.code \in {0, 1} => ~e.convergence

C24_Witness ==
    /\ Len(error_codes) = 2
    /\ error_codes[1].cls = "PyDssConvergenceMaxError"
    /\ error_codes[1].convergence
    /\ error_codes[2].cls = "OpenDssCompileError"
    /\ ~error_codes[2].convergence

\* the cache holds under every name the data of the shape of that name
C25_OwnData(cache) ==
    cache.bound
        => \A nm \in DOMAIN cache.dict :
              cache.dict[nm] = create_loadshape_pmult_dataframe(settings, loadshapes[nm])

\* C25: whenever a shape is materialized for a device, the engine's selected
\* load shape is the one the device's yearly property names, so the series
\* cached under a shape name is that shape's own data, for every order and
\* sharing pattern of the devices and whatever shape was selected before.
C25_SelectThenRead ==
    /\ \A i \in 1..Len(materialized) : materialized[i].active = materialized[i].name
    /\ C25_OwnData(pv_shapes)
    /\ C25_OwnData(load_shapes)
    /\ (pc = "del_pv_shapes" /\ pv_systems # << >>)
          => active_shape = pv_systems[Len(pv_systems)].yearly
    /\ (pc = "derive" /\ loads # << >>) => active_shape = loads[Len(loads)].yearly

\* the shape selected before the call is not the first device's; two loads
\* share a shape and a third name comes between the passes
C25_Witness ==
    /\ pc = "derive"
    /\ Len(pv_systems) = 2
    /\ pv_systems[1].yearly = "S2"
    /\ pv_systems[2].yearly = "S1"
    /\ Len(loads) = 2
    /\ loads[1].yearly = "S2"
    /\ loads[2].yearly = "S2"
    /\ load_shapes.bound
    /\ DOMAIN load_shapes.dict = {"S2"}
    /\ Len(materialized) = 3

\* the parameters that give an option, in the parameters' order
C28_Kept ==
    SelectSeq(params,
              LAMBDA p : ~(p.value \in {V_Str(Null), V_None, V_Bool(FALSE)}))

\* the option of a parameter: the bare flag for True, --name=value otherwise
C28_Option(p) ==
    LET name == [i \in 1..Len(p.name) |-> IF p.name[i] = "_" THEN "-" ELSE p.name[i]]
    IN IF p.value = V_Bool(TRUE) THEN <<"-", "-">> \o name
       ELSE <<"-", "-">> \o name \o <<"=">> \o
            (CASE p.value.t = "str" -> p.value.s
               [] p.value.t = "int" -> IF p.value.n = 0 THEN <<"0">> ELSE <<"1">>)

\* the options of the first k kept parameters, one space between two
RECURSIVE C28_Upto(_)
C28_Upto(k) ==
    IF k = 0 THEN << >>
    ELSE IF k = 1 THEN C28_Option(C28_Kept[1])
    ELSE C28_Upto(k - 1) \o <<" ">> \o C28_Option(C28_Kept[k])

\* C28: _construct_options_string yields the options in the parameters'
\* order, separated by single spaces: a parameter whose value is "null", None
\* or False is omitted, True gives the bare flag --name, any other value (0
\* and the empty string included) gives --name=value, where name has every
\* underscore replaced by a dash.
C28_OptionString ==
    options.made => options.string = C28_Upto(Len(C28_Kept))

C28_Witness ==
    /\ options.made
    /\ params = <<[name |-> <<"a", "_", "b">>, value |-> V_Int(0)],
                  [name |-> <<"_", "c", "_">>, value |-> V_Str(<< >>)]>>
    /\ options.string = <<"-", "-", "a", "-", "b", "=", "0", " ",
                          "-", "-", "-", "c", "-", "=">>

\* C29 as stated: on one PipelineTemplate object get_transform_options
\* returns the same option string on every call, and get_model_transform_output
\* returns the same path whether it is called before or after it.
C29_SameOnEveryCall ==
    \A i, j \in 1..Len(returned) :
        returned[i].call = returned[j].call => returned[i].value = returned[j].value

\* C30: every access to the creator's template yields a template freshly
\* loaded from the file, so the changes made in memory through one access
\* (null to None, the rewritten output path, the HpcConfig object in place
\* of hpc_config) are not visible through a later access, and what a call
\* returns after an access is what it returns on the data of the file.
C30_FreshTemplate ==
    /\ seen.data = template_file
    /\ returned # << >>
         => returned[1].value = ValueOf(returned[1].call, template_file, environ)

\* after calls that changed the first object in all three ways, a second
\* access, and a call on what it gave
C30_Witness ==
    /\ seen.n = 2
    /\ Len(returned) = 1
    /\ returned[1].call = "get_transform_options"
    /\ instance # template_file
    /\ ParamValue(template_file.transform_params, <<"f", "_", "g">>) = V_Str(Null)
    /\ ParamValue(template_file.transform_params, Output) = V_Str(<<"m">>)

====
